---------------------------- MODULE Spec2Model ----------------------------
(***************************************************************************)
(* Model of src/jadeed-scraper.py: the Record Store (load_existing_        *)
(* articles, prepend_article_to_csv_top, write_full_csv), the Item Fetcher *)
(* (scrape_article_in_new_tab) and the Pagination Crawler                  *)
(* (scrape_notifications_page) run by main.                                *)
(*                                                                         *)
(* Time is counted in minutes, the precision of the page's                 *)
(* 'YYYY-MM-DD | HH:MM' stamp and of isoformat(timespec="minutes").        *)
(* The article page behind a URL is site data fixed for a session; the     *)
(* feed is revealed by the site batch by batch.                            *)
(*                                                                         *)
(* Spec is a session of scrape_notifications_page with its failures;       *)
(* SpecMain adds driver creation and Ctrl+C; SpecShrinking adds a listing  *)
(* that gets shorter; SpecReliable leaves every failure out and            *)
(* SpecReliableFair adds fair scheduling to it; SpecStore calls the store  *)
(* directly; SpecBody applies extract_body to any page.                    *)
(***************************************************************************)
EXTENDS Integers, Sequences, FiniteSets

VARIABLES
    pc,                     \* position in main / the crawler / the fetcher / the store
    ret,                    \* where prepend_article_to_csv_top returns to
    site,                   \* site data: URL -> the article page (title present, stamp text)
    feed,                   \* site data: hrefs of the notification cards in the DOM
    until_dt,               \* the cutoff (--until)
    csv_file,               \* the committed store file at csv_path
    tmp_file,               \* the file at csv_path + ".tmp"
    all_rows,               \* in-memory ordered list of rows
    existing_urls,          \* in-memory known-URL set
    n_loaded,               \* "Loaded %d existing rows" (log line 121)
    notif_items,            \* the last listing of the feed
    processed_notif_count,  \* the crawl cursor
    idx,                    \* loop index of the batch loop (0-based)
    stop,                   \* the terminal flag
    tabs,                   \* article windows open in the driver, in creation order
    focus,                  \* the driver's current window: 0 or an index into tabs
    attempt,                \* loop variable of the fetcher's retry loop
    article,                \* the fetcher's result
    driver_quit,            \* driver.quit() was called
    exit_status,            \* the exit status of the process, once main has ended
    dom,                    \* the body regions of the page extract_body reads
    body                    \* the text extract_body returned

vars == <<pc, ret, site, feed, until_dt, csv_file, tmp_file, all_rows,
          existing_urls, n_loaded, notif_items, processed_notif_count, idx,
          stop, tabs, focus, attempt, article, driver_quit, exit_status,
          dom, body>>

inputVars == <<site, until_dt>>
diskVars == <<csv_file, tmp_file>>
memVars == <<all_rows, existing_urls, n_loaded>>
storeVars == <<diskVars, memVars>>
crawlVars == <<notif_items, processed_notif_count, idx, stop>>
driverVars == <<tabs, focus, driver_quit>>
fetchVars == <<attempt, article>>
extractVars == <<dom, body>>

----------------------------------------------------------------------------
(* Bounds and input domains *)

MaxFeed == 2        \* most cards the site ever shows
MaxTime == 2        \* latest minute a page can show
MaxStray == 1       \* most windows whose close() fails in one cleanup
MaxText == 2        \* most characters in the text of one page element
MaxParagraphs == 2  \* most elements the generic selectors match

URLS == {"u1", "u2"}
MoreURLS == URLS \cup {"u3"}
NoHref == ""                          \* a card with no link or an empty href
Times == 0..MaxTime
Cutoffs == {1}

\* An article page with a title element, by the dt_text found on it: no
\* stamp element, a stamp that matches the pattern but does not parse, or a
\* stamp that parses to minute t.
NoStamp == [title |-> TRUE, found |-> FALSE, valid |-> FALSE, t |-> 0]
Garbled == [title |-> TRUE, found |-> TRUE, valid |-> FALSE, t |-> 0]
Stamp(t) == [title |-> TRUE, found |-> TRUE, valid |-> TRUE, t |-> t]
StampTexts == {NoStamp, Garbled} \cup {Stamp(t) : t \in Times}

\* An article page on which nothing matches ARTICLE_TITLE_SELECTOR. The wait
\* of line 319 ends the attempt before the stamp is read, so one such page
\* stands for all of them.
NoHeading == [title |-> FALSE, found |-> FALSE, valid |-> FALSE, t |-> 0]

Pages == StampTexts \cup {NoHeading}

NoneDt == -1        \* Python None for an Optional[datetime]
EmptyStr == -1      \* the empty string in the PublishedAt column
max_retries == 3
original_window == 0

None == <<>>        \* the fetcher's "absent"; a record r is returned as <<r>>

StillRunning == -1  \* exit_status while main has not ended
EXIT_SUCCESS == 0   \* the status of a process whose main returned

\* A file: whether it exists, whether its bytes decode as utf-8-sig, whether
\* the header line is in it, and its data rows.
MissingFile == [exists |-> FALSE, utf8 |-> TRUE, header |-> FALSE, rows |-> <<>>]
FullFile(rows) == [exists |-> TRUE, utf8 |-> TRUE, header |-> TRUE, rows |-> rows]

\* A corrupt store file: it holds bytes that are not valid UTF-8, so no row
\* can be read from it.
UndecodableFile == [exists |-> TRUE, utf8 |-> FALSE, header |-> FALSE, rows |-> <<>>]


----------------------------------------------------------------------------
(* Datetime Normalizer and the PublishedAt column *)

\* parse_published_datetime: the parsed minute, or None when dateutil raises.
parse_published_datetime(dt_text) ==
    IF dt_text.valid THEN dt_text.t ELSE NoneDt

\* Lines 327-333: published_at stays "" unless a stamp was found and parsed.
PublishedAtColumn(dt_text) ==
    IF dt_text.found
      THEN LET published_dt == parse_published_datetime(dt_text)
           IN  IF published_dt # NoneDt THEN published_dt ELSE EmptyStr
      ELSE EmptyStr

\* Lines 502-508: datetime.fromisoformat of a non-empty column, else None.
PublishedDt(row) ==
    IF row.PublishedAt # EmptyStr THEN row.PublishedAt ELSE NoneDt

\* Faulty variant: the comparison of line 510 written as <=.
IsOlderOrEqual(published_dt, until) == published_dt <= until

IsOlderThan(published_dt, until) == published_dt < until

\* Faulty variant: line 510 without its "published_dt and" guard, None counting as old.
ShouldStopOnAbsent(row, until) ==
    PublishedDt(row) = NoneDt \/ IsOlderThan(PublishedDt(row), until)

\* Faulty variant: the comparison of line 510 turned around.
ShouldStopOnNewer(row, until) ==
    PublishedDt(row) # NoneDt /\ PublishedDt(row) > until

\* Line 510: published_dt and published_dt < until_dt
ShouldStop(row, until) ==
    PublishedDt(row) # NoneDt /\ IsOlderThan(PublishedDt(row), until)

\* The record the extraction builds (lines 339-347), reduced to the columns
\* the store and the crawler read.
MakeArticle(url, dt_text) ==
    [URL |-> url, PublishedAt |-> PublishedAtColumn(dt_text)]

----------------------------------------------------------------------------
(* Article Extractor: extract_body(driver, logger) *)

\* Text is a sequence of characters: a letter, a blank, a line break, and
\* Marker, which stands for the whole substring "مقالات ذات صلة".
Marker == "M"
LineBreak == "\n"
Whitespace == {" ", LineBreak}
Chars == {"a", " ", Marker}

Texts == UNION {[1..n -> Chars] : n \in 0..MaxText}

\* A region of the page: whether find_element finds it, and its .text.
NoRegion == [present |-> FALSE, text |-> <<>>]
Regions == {NoRegion} \cup {[present |-> TRUE, text |-> t] : t \in Texts}

\* The .text of the elements the selectors of ARTICLE_BODY_CANDIDATES match,
\* in the order the loops of lines 277-283 visit them.
GenericMarkups == UNION {[1..n -> Texts] : n \in 0..MaxParagraphs}

\* The page as extract_body sees it: the short description element, the
\* .LongDesc container and the generic paragraph elements.
Doms == [short : Regions, long : Regions, generic : GenericMarkups]

EmptyDom == [short |-> NoRegion, long |-> NoRegion, generic |-> <<>>]

RECURSIVE lstrip(_)
lstrip(s) ==
    IF s # <<>> /\ Head(s) \in Whitespace THEN lstrip(Tail(s)) ELSE s

RECURSIVE rstrip(_)
rstrip(s) ==
    IF s # <<>> /\ s[Len(s)] \in Whitespace
      THEN rstrip(SubSeq(s, 1, Len(s) - 1))
      ELSE s

\* str.strip()
strip(s) == rstrip(lstrip(s))

\* Line 268: long_desc_text.split(marker)[0], the text before the first marker.
RECURSIVE BeforeMarker(_)
BeforeMarker(s) ==
    IF s = <<>> \/ Head(s) = Marker THEN <<>>
    ELSE <<Head(s)>> \o BeforeMarker(Tail(s))

\* sep.join(parts)
RECURSIVE join(_, _)
join(sep, parts) ==
    IF parts = <<>> THEN <<>>
    ELSE IF Len(parts) = 1 THEN parts[1]
    ELSE parts[1] \o sep \o join(sep, Tail(parts))

\* Lines 252-260: the short description, appended when its text is not empty.
ShortParts(d) ==
    IF d.short.present /\ strip(d.short.text) # <<>>
      THEN <<strip(d.short.text)>>
      ELSE <<>>

\* Lines 262-271: the long description, tested before the cut at the marker
\* and appended after it, empty or not.
LongParts(d) ==
    IF d.long.present /\ strip(d.long.text) # <<>>
      THEN <<strip(BeforeMarker(strip(d.long.text)))>>
      ELSE <<>>

\* Lines 276-285: the non-empty stripped texts of the generic elements.
RECURSIVE Paragraphs(_)
Paragraphs(elems) ==
    IF elems = <<>> THEN <<>>
    ELSE (IF strip(Head(elems)) # <<>> THEN <<strip(Head(elems))>> ELSE <<>>)
           \o Paragraphs(Tail(elems))

\* Lines 245-290
extract_body(d) ==
    LET full_text_parts == ShortParts(d) \o LongParts(d)
        paragraphs == Paragraphs(d.generic)
    IN  IF full_text_parts = <<>> /\ paragraphs # <<>>
          THEN join(<<LineBreak>>, paragraphs)
          ELSE strip(join(<<LineBreak, LineBreak>>, full_text_parts))

\* Line 337: is_notification_only = "True" if not body else "False"
is_notification_only(b) == b = <<>>

\* Line 336: body = extract_body(driver, logger)
ExtractBody ==
    /\ pc = "x_body"
    /\ body' = extract_body(dom)
    /\ pc' = "x_done"
    /\ UNCHANGED <<exit_status, dom, ret, feed, inputVars, storeVars, crawlVars,
                   driverVars, fetchVars>>

\* No page is being extracted: the crawl model keeps only the URL and
\* PublishedAt columns of a record, which the body does not influence.
NoExtraction == dom = EmptyDom /\ body = <<>>

----------------------------------------------------------------------------
(* Record Store *)

RowUrls(rows) == {rows[i].URL : i \in DOMAIN rows}

\* load_existing_articles: rows of the file, and the non-empty URLs of them.
LoadRows(file) == IF file.exists THEN file.rows ELSE <<>>

\* Faulty variant: lines 118-119 left out, the loaded URL set stays empty.
LoadUrlsNone(file) == {}

LoadUrls(file) == {u \in RowUrls(LoadRows(file)) : u # NoHref}

\* Faulty variant: the duplicate test of line 166 never fires.
IsDuplicateNever(url, urls) == FALSE

\* Line 166: url in existing_urls
IsDuplicate(url, urls) == url \in urls

\* Faulty variant: line 174 left out, the list is changed but never written.
PrependUnwritten(rows, urls, art) ==
    IF art.URL = NoHref \/ IsDuplicate(art.URL, urls)
      THEN [rows |-> rows, urls |-> urls, write |-> FALSE]
      ELSE [rows |-> <<art>> \o rows, urls |-> urls \cup {art.URL}, write |-> FALSE]

\* Faulty variant: line 171 written as an assignment, the list restarted from the new record.
PrependDropsOld(rows, urls, art) ==
    IF art.URL = NoHref \/ IsDuplicate(art.URL, urls)
      THEN [rows |-> rows, urls |-> urls, write |-> FALSE]
      ELSE [rows |-> <<art>>, urls |-> urls \cup {art.URL}, write |-> TRUE]

\* Faulty variant: line 170 left out, the URL set is not told of the new record.
PrependForgetsUrl(rows, urls, art) ==
    IF art.URL = NoHref \/ IsDuplicate(art.URL, urls)
      THEN [rows |-> rows, urls |-> urls, write |-> FALSE]
      ELSE [rows |-> <<art>> \o rows, urls |-> urls, write |-> TRUE]

\* prepend_article_to_csv_top up to the call of write_full_csv.
PrependResult(rows, urls, art) ==
    IF art.URL = NoHref \/ IsDuplicate(art.URL, urls)
      THEN [rows |-> rows, urls |-> urls, write |-> FALSE]
      ELSE [rows |-> <<art>> \o rows, urls |-> urls \cup {art.URL}, write |-> TRUE]

\* prepend_article_to_csv_top(article), returning to r.
Prepend(art, r) ==
    LET res == PrependResult(all_rows, existing_urls, art)
    IN  /\ all_rows' = res.rows
        /\ existing_urls' = res.urls
        /\ ret' = r
        /\ pc' = IF res.write THEN "w_open" ELSE r

\* write_full_csv, line 141: open(tmp_path, "w") creates or truncates the temp file.
OpenTmp ==
    /\ pc = "w_open"
    /\ tmp_file' = [exists |-> TRUE, utf8 |-> TRUE, header |-> FALSE, rows |-> <<>>]
    /\ pc' = "w_write"
    /\ UNCHANGED <<exit_status, extractVars, csv_file, ret, feed, inputVars, memVars, crawlVars, driverVars, fetchVars>>

\* Line 143: writer.writeheader()
WriteHeader ==
    /\ pc = "w_write"
    /\ ~tmp_file.header
    /\ tmp_file' = [tmp_file EXCEPT !.header = TRUE]
    /\ UNCHANGED <<exit_status, extractVars, pc, csv_file, ret, feed, inputVars, memVars, crawlVars, driverVars, fetchVars>>

\* Line 144: writer.writerows(all_rows), one row reaching the file at a time.
WriteRow ==
    /\ pc = "w_write"
    /\ tmp_file.header
    /\ Len(tmp_file.rows) < Len(all_rows)
    /\ tmp_file' = [tmp_file EXCEPT
                      !.rows = Append(@, all_rows[Len(tmp_file.rows) + 1])]
    /\ UNCHANGED <<exit_status, extractVars, pc, csv_file, ret, feed, inputVars, memVars, crawlVars, driverVars, fetchVars>>

\* The with-block has written and closed the temp file.
TmpComplete == tmp_file.header /\ Len(tmp_file.rows) = Len(all_rows)

\* Faulty variant: the rename runs inside the with-block, before the rows are flushed.
ReplaceUnflushed == tmp_file.header

\* Line 146: os.replace(tmp_path, csv_path), atomic, after the with-block.
ReplaceReady == TmpComplete

Replace ==
    /\ pc = "w_write"
    /\ ReplaceReady
    /\ csv_file' = tmp_file
    /\ tmp_file' = MissingFile
    /\ pc' = ret
    /\ UNCHANGED <<exit_status, extractVars, ret, feed, inputVars, memVars, crawlVars, driverVars, fetchVars>>

\* An OSError out of open, write, close or os.replace: the exception leaves
\* write_full_csv with the files as they are.
WriteFails ==
    /\ pc \in {"w_open", "w_write"}
    /\ pc' = "raise"
    /\ UNCHANGED <<exit_status, extractVars, diskVars, ret, feed, inputVars, memVars, crawlVars, driverVars, fetchVars>>

----------------------------------------------------------------------------
(* Item Fetcher: scrape_article_in_new_tab(driver, url) *)

\* Where the fetcher can be: opening the tab, extracting, closing, handling a failure.
FetchPcs == {"f_open", "f_extract", "f_close", "f_cleanup"}

\* The href of the card the batch loop is at (notif_items[idx], line 472).
CurrentUrl == notif_items[idx + 1]

RECURSIVE KeepAt(_, _, _)
KeepAt(s, S, i) ==
    IF i > Len(s) THEN <<>>
    ELSE (IF i \in S THEN <<s[i]>> ELSE <<>>) \o KeepAt(s, S, i + 1)

\* Line 315: the first window handle that is not the original window.
FirstOtherWindow == 1

\* Lines 310-316: window.open(url), wait for a second handle, switch to it.
OpenTab ==
    /\ pc = "f_open"
    /\ tabs' = Append(tabs, CurrentUrl)
    /\ focus' = FirstOtherWindow
    /\ pc' = "f_extract"
    /\ UNCHANGED <<exit_status, extractVars, ret, feed, inputVars, storeVars, crawlVars, fetchVars, driver_quit>>

\* Lines 310-314 raise: the script fails or no second handle appears in time.
OpenTabFails ==
    /\ pc = "f_open"
    /\ pc' = "f_cleanup"
    /\ UNCHANGED <<exit_status, extractVars, ret, feed, inputVars, storeVars, crawlVars, driverVars,
                   fetchVars>>

\* The page loaded in the window the fetcher switched to.
FocusedPage == site[tabs[focus]]

\* Lines 319-321: presence_of_element_located(ARTICLE_TITLE_SELECTOR) within 10 s.
TitleLocated(page) == page.title

\* Lines 319-349: the title is present; the record is built from the page in
\* the focused window, under the url the fetcher was called with.
Extract ==
    /\ pc = "f_extract"
    /\ TitleLocated(FocusedPage)
    /\ article' = <<MakeArticle(CurrentUrl, FocusedPage)>>
    /\ pc' = "f_close"
    /\ UNCHANGED <<exit_status, extractVars, ret, feed, inputVars, storeVars, crawlVars, driverVars,
                   attempt>>

\* Lines 319-321 raise TimeoutException: the page has no title element.
TitleTimeout ==
    /\ pc = "f_extract"
    /\ ~TitleLocated(FocusedPage)
    /\ pc' = "f_cleanup"
    /\ UNCHANGED <<exit_status, extractVars, ret, feed, inputVars, storeVars, crawlVars, driverVars,
                   fetchVars>>

\* Lines 319-336 raise on a page that has a title: the page is slow and the
\* wait times out, or an element call fails.
ExtractFails ==
    /\ pc = "f_extract"
    /\ TitleLocated(FocusedPage)
    /\ pc' = "f_cleanup"
    /\ UNCHANGED <<exit_status, extractVars, ret, feed, inputVars, storeVars, crawlVars, driverVars,
                   fetchVars>>

\* Lines 351-353: close the focused window, switch back, return the record.
CloseTab ==
    /\ pc = "f_close"
    /\ tabs' = KeepAt(tabs, DOMAIN tabs \ {focus}, 1)
    /\ focus' = original_window
    /\ attempt' = 0
    /\ pc' = "decide"
    /\ UNCHANGED <<exit_status, extractVars, ret, feed, inputVars, storeVars, crawlVars, article, driver_quit>>

\* Line 351 raises: the window stays open and the handler runs.
CloseTabFails ==
    /\ pc = "f_close"
    /\ article' = None
    /\ pc' = "f_cleanup"
    /\ UNCHANGED <<exit_status, extractVars, ret, feed, inputVars, storeVars, crawlVars, driverVars, attempt>>

\* Faulty variant: the loop written range(1, max_retries).
LastAttemptEarly(a) == a >= max_retries - 1

\* range(1, max_retries + 1) is exhausted after this attempt.
LastAttempt(a) == a >= max_retries

\* Lines 359-367: close() each other window, swallowing a failure (the window
\* then stays open); switch back to the original window; next attempt, or
\* line 370: return None.
Cleanup ==
    /\ pc = "f_cleanup"
    /\ \E S \in SUBSET DOMAIN tabs :
          /\ Cardinality(S) <= MaxStray
          /\ tabs' = KeepAt(tabs, S, 1)
    /\ focus' = original_window
    /\ IF LastAttempt(attempt)
         THEN /\ article' = None
              /\ attempt' = 0
              /\ pc' = "decide"
         ELSE /\ attempt' = attempt + 1
              /\ pc' = "f_open"
              /\ UNCHANGED article
    /\ UNCHANGED <<exit_status, extractVars, ret, feed, inputVars, storeVars, crawlVars, driver_quit>>

----------------------------------------------------------------------------
(* Pagination Crawler: scrape_notifications_page *)

\* What a card's link can hold: the URL of an article of the site, or nothing.
Hrefs == DOMAIN site \cup {NoHref}

Batches(lo, hi) == UNION {[1..n -> Hrefs] : n \in lo..hi}

\* Lines 109-116: the file is missing, or the reader decodes every line of it.
Decodes(file) == ~file.exists \/ file.utf8

\* Line 392: all_rows, existing_urls = load_existing_articles(csv_path, logger)
LoadTo(next) ==
    /\ Decodes(csv_file)
    /\ all_rows' = LoadRows(csv_file)
    /\ existing_urls' = LoadUrls(csv_file)
    /\ n_loaded' = Len(LoadRows(csv_file))
    /\ pc' = next
    /\ UNCHANGED <<exit_status, extractVars, ret, feed, inputVars, diskVars, crawlVars, driverVars,
                   fetchVars>>

LoadExisting == pc = "load" /\ LoadTo("open")

\* Lines 114-116 raise UnicodeDecodeError: nothing in load_existing_articles
\* or in scrape_notifications_page catches it.
LoadFails ==
    /\ pc = "load"
    /\ ~Decodes(csv_file)
    /\ pc' = "raise"
    /\ UNCHANGED <<exit_status, extractVars, ret, feed, inputVars, storeVars, crawlVars, driverVars, fetchVars>>

\* Lines 395-451: the page is loaded and shows at least one card.
OpenFeed ==
    /\ pc = "open"
    /\ \E batch \in Batches(1, MaxFeed) : feed' = batch
    /\ pc' = "collect"
    /\ UNCHANGED <<exit_status, extractVars, ret, inputVars, storeVars, crawlVars, driverVars, fetchVars>>

\* Lines 395-448 raise: driver.get fails or no card appears within the wait.
OpenFeedFails ==
    /\ pc = "open"
    /\ pc' = "raise"
    /\ UNCHANGED <<exit_status, extractVars, ret, feed, inputVars, storeVars, crawlVars, driverVars, fetchVars>>

\* Lines 456-460: list the cards, start the batch loop at the cursor.
Collect ==
    /\ pc = "collect"
    /\ notif_items' = feed
    /\ idx' = processed_notif_count
    /\ pc' = "item"
    /\ UNCHANGED <<exit_status, extractVars, ret, feed, inputVars, storeVars, processed_notif_count, stop,
                   driverVars, fetchVars>>

InBatch == pc = "item" /\ idx < Len(notif_items)

\* Lines 470-480: no link element, or a link without href.
SkipNoLink ==
    /\ InBatch
    /\ CurrentUrl = NoHref
    /\ idx' = idx + 1
    /\ UNCHANGED <<exit_status, extractVars, pc, ret, feed, inputVars, storeVars, notif_items,
                   processed_notif_count, stop, driverVars, fetchVars>>

\* Faulty variant: the test of line 491 never fires.
AlreadyScrapedNever(url) == FALSE

\* Line 491: url in existing_urls
AlreadyScraped(url) == url \in existing_urls

\* Lines 491-493
SkipKnown ==
    /\ InBatch
    /\ CurrentUrl # NoHref
    /\ AlreadyScraped(CurrentUrl)
    /\ idx' = idx + 1
    /\ UNCHANGED <<exit_status, extractVars, pc, ret, feed, inputVars, storeVars, notif_items,
                   processed_notif_count, stop, driverVars, fetchVars>>

\* Line 496 calls the fetcher; lines 303-305 start its first attempt.
StartFetch ==
    /\ InBatch
    /\ CurrentUrl # NoHref
    /\ ~AlreadyScraped(CurrentUrl)
    /\ attempt' = 1
    /\ article' = None
    /\ pc' = "f_open"
    /\ UNCHANGED <<exit_status, extractVars, ret, feed, inputVars, storeVars, crawlVars, driverVars>>

\* Faulty variant: a fetch that gave up ends the crawl with an exception.
OnGiveUpRaise == "raise"

\* Line 499: continue, the for loop goes on.
OnGiveUp == "item"

\* Lines 497-499: the fetcher gave up; on to the next card.
FetchGaveUp ==
    /\ pc = "decide"
    /\ article = None
    /\ idx' = idx + 1
    /\ pc' = OnGiveUp
    /\ UNCHANGED <<exit_status, extractVars, ret, feed, inputVars, storeVars, notif_items,
                   processed_notif_count, stop, driverVars, fetchVars>>

\* Lines 510-518 and 523-526: stop = True, break, the cursor is set, break.
StopOnOld ==
    /\ pc = "decide"
    /\ article # None
    /\ ShouldStop(article[1], until_dt)
    /\ stop' = TRUE
    /\ processed_notif_count' = Len(notif_items)
    /\ pc' = "done"
    /\ UNCHANGED <<exit_status, extractVars, ret, feed, inputVars, storeVars, notif_items, idx,
                   driverVars, fetchVars>>

\* Line 521: prepend_article_to_csv_top(csv_path, all_rows, existing_urls, article)
Accept ==
    /\ pc = "decide"
    /\ article # None
    /\ ~ShouldStop(article[1], until_dt)
    /\ Prepend(article[1], "advance")
    /\ UNCHANGED <<exit_status, extractVars, feed, inputVars, diskVars, n_loaded, crawlVars, driverVars,
                   fetchVars>>

\* The store returned; the for loop moves to the next card.
Advance ==
    /\ pc = "advance"
    /\ idx' = idx + 1
    /\ article' = None
    /\ pc' = "item"
    /\ UNCHANGED <<exit_status, extractVars, ret, feed, inputVars, storeVars, notif_items,
                   processed_notif_count, stop, driverVars, attempt>>

\* Line 523, after the for loop ran to its end.
EndBatch ==
    /\ pc = "item"
    /\ idx >= Len(notif_items)
    /\ processed_notif_count' = Len(notif_items)
    /\ pc' = "more"
    /\ UNCHANGED <<exit_status, extractVars, ret, feed, inputVars, storeVars, notif_items, idx, stop,
                   driverVars, fetchVars>>

\* Lines 531-537: the control is clickable and is clicked; the site appends
\* the cards it has left, possibly none.
ClickMore ==
    /\ pc = "more"
    /\ \E batch \in Batches(0, MaxFeed - Len(feed)) : feed' = feed \o batch
    /\ pc' = "collect"
    /\ UNCHANGED <<exit_status, extractVars, ret, inputVars, storeVars, crawlVars, driverVars, fetchVars>>

\* Lines 531-537 and 456: the control is clicked and the page, redrawn,
\* lists fewer cards than before (the site dropped the last ones).
ListingShrinks ==
    /\ pc = "more"
    /\ \E n \in 0..(Len(feed) - 1) : feed' = SubSeq(feed, 1, n)
    /\ pc' = "collect"
    /\ UNCHANGED <<exit_status, extractVars, ret, inputVars, storeVars, crawlVars, driverVars, fetchVars>>

\* Faulty variant: the TimeoutException of the wait for the control is not caught.
OnNoMoreRaise == "raise"

\* Lines 538-540: except TimeoutException: break, and the function returns.
OnNoMore == "done"

\* Lines 531-533 raise TimeoutException: the control is absent or not
\* clickable within the wait; the feed is exhausted.
NoMoreButton ==
    /\ pc = "more"
    /\ pc' = OnNoMore
    /\ UNCHANGED <<exit_status, extractVars, ret, feed, inputVars, storeVars, crawlVars, driverVars, fetchVars>>

----------------------------------------------------------------------------
(* main *)

\* Faulty variant: driver.quit() as the last statement of the try block, not in a finally.
QuitsOnSuccessOnly(at) == at = "done"

\* Lines 603-605: finally: if driver: driver.quit(). The driver is still None
\* only when the try block was left out of create_driver.
QuitsDriver(at) == at # "create"

\* Lines 597-606: whichever except clause ran, it only logs; after the
\* finally block main returns and the interpreter exits with status 0.
ExitStatus(at) == EXIT_SUCCESS

\* The locals of scrape_notifications_page are gone once it has returned or
\* raised; finally: driver.quit() closes every window.
LeaveCrawler ==
    /\ all_rows' = <<>>
    /\ existing_urls' = {}
    /\ n_loaded' = 0
    /\ notif_items' = <<>>
    /\ processed_notif_count' = 0
    /\ idx' = 0
    /\ stop' = FALSE
    /\ attempt' = 0
    /\ article' = None
    /\ driver_quit' = QuitsDriver(pc)
    /\ tabs' = IF QuitsDriver(pc) THEN <<>> ELSE tabs
    /\ exit_status' = ExitStatus(pc)
    /\ focus' = original_window
    /\ pc' = "exit"
    /\ UNCHANGED <<ret, feed, inputVars, diskVars, extractVars>>

\* Lines 603-606 after a normal return of scrape_notifications_page.
Finish == pc = "done" /\ LeaveCrawler

\* Lines 597-606: the exception is logged, the driver is quit.
MainExcept == pc = "raise" /\ LeaveCrawler

\* Store files a previous run can have left: none, or a complete file of
\* rows scraped from this site.
InitRows(pages) ==
    LET u == CHOOSE v \in DOMAIN pages : TRUE
    IN  {<<>>, <<MakeArticle(u, pages[u])>>}

InitFiles(pages) == {MissingFile} \cup {FullFile(rows) : rows \in InitRows(pages)}

InitCommon ==
    /\ until_dt \in Cutoffs
    /\ tmp_file = MissingFile
    /\ feed = <<>>
    /\ all_rows = <<>>
    /\ existing_urls = {}
    /\ n_loaded = 0
    /\ notif_items = <<>>
    /\ processed_notif_count = 0
    /\ idx = 0
    /\ stop = FALSE
    /\ tabs = <<>>
    /\ focus = original_window
    /\ attempt = 0
    /\ article = None
    /\ driver_quit = FALSE
    /\ exit_status = StillRunning

\* main after create_driver (line 594), entering scrape_notifications_page.
Init ==
    /\ NoExtraction
    /\ site \in [URLS -> Pages]
    /\ csv_file \in InitFiles(site) \cup {UndecodableFile}
    /\ InitCommon
    /\ pc = "load"
    /\ ret = "advance"

Next ==
    \/ LoadExisting \/ LoadFails \/ OpenFeed \/ OpenFeedFails \/ Collect
    \/ SkipNoLink \/ SkipKnown \/ StartFetch
    \/ OpenTab \/ OpenTabFails \/ Extract \/ TitleTimeout \/ ExtractFails
    \/ CloseTab \/ CloseTabFails \/ Cleanup
    \/ FetchGaveUp \/ StopOnOld \/ Accept \/ Advance \/ EndBatch
    \/ OpenTmp \/ WriteHeader \/ WriteRow \/ Replace \/ WriteFails
    \/ ClickMore \/ NoMoreButton \/ Finish \/ MainExcept

Spec == Init /\ [][Next]_vars

\* main from line 592 on: the driver is still to be created, and the user can
\* interrupt the run at any point.
RunningPcs ==
    {"load", "open", "collect", "item", "decide", "advance", "more",
     "w_open", "w_write"} \cup FetchPcs

\* Line 594: create_driver returns a driver.
CreateDriver ==
    /\ pc = "create"
    /\ pc' = "load"
    /\ UNCHANGED <<exit_status, extractVars, ret, feed, inputVars, storeVars, crawlVars, driverVars,
                   fetchVars>>

\* Line 594 raises (no browser, no matching chromedriver) or is interrupted:
\* driver is still None, an except clause logs, finally quits nothing.
CreateDriverFails == pc = "create" /\ LeaveCrawler

\* Lines 599-606: Ctrl+C while scrape_notifications_page runs. No handler
\* below main catches KeyboardInterrupt (the fetcher's is 'except Exception'),
\* so the try block is left at once. An interrupt after the crawler returned
\* or raised ends the run as Finish and MainExcept do.
Interrupt == pc \in RunningPcs /\ LeaveCrawler

InitMain ==
    /\ NoExtraction
    /\ site \in [URLS -> Pages]
    /\ csv_file \in InitFiles(site) \cup {UndecodableFile}
    /\ InitCommon
    /\ pc = "create"
    /\ ret = "advance"

NextMain == CreateDriver \/ CreateDriverFails \/ Interrupt \/ Next

SpecMain == InitMain /\ [][NextMain]_vars

\* The same session on a site whose listing can also get shorter between two
\* listings.
NextShrinking == Next \/ ListingShrinks

SpecShrinking == Init /\ [][NextShrinking]_vars

\* A session in which no driver call and no file operation fails, over a
\* site of three articles.
InitReliable ==
    /\ NoExtraction
    /\ site \in [MoreURLS -> StampTexts]
    /\ csv_file \in InitFiles(site)
    /\ InitCommon
    /\ pc = "load"
    /\ ret = "advance"

NextReliable ==
    \/ LoadExisting \/ OpenFeed \/ Collect
    \/ SkipNoLink \/ SkipKnown \/ StartFetch
    \/ OpenTab \/ Extract \/ CloseTab
    \/ StopOnOld \/ Accept \/ Advance \/ EndBatch
    \/ OpenTmp \/ WriteHeader \/ WriteRow \/ Replace
    \/ ClickMore \/ NoMoreButton \/ Finish

SpecReliable == InitReliable /\ [][NextReliable]_vars

\* The same session under fair scheduling: the script is one sequential
\* process and every wait in it is bounded, so it always takes its next step.
\* Which way a wait ends (the 'load more' control clickable or not, cards
\* added or not) is the site's choice and is not constrained.
SpecReliableFair == SpecReliable /\ WF_vars(NextReliable)

----------------------------------------------------------------------------
(* extract_body applied to any page. *)

InitBody ==
    /\ dom \in Doms
    /\ body = <<>>
    /\ site = [u \in URLS |-> NoStamp]
    /\ csv_file = MissingFile
    /\ InitCommon
    /\ pc = "x_body"
    /\ ret = "advance"

NextBody == ExtractBody

SpecBody == InitBody /\ [][NextBody]_vars

----------------------------------------------------------------------------
(* The Record Store driven directly: load, then accept any candidates. *)

Articles == {MakeArticle(u, st) : u \in Hrefs, st \in StampTexts}

HarnessLoad == pc = "h_load" /\ LoadTo("idle")

\* prepend_article_to_csv_top(csv_path, all_rows, existing_urls, art, logger)
HarnessAccept ==
    /\ pc = "idle"
    /\ \E art \in Articles :
          /\ article' = <<art>>
          /\ Prepend(art, "idle")
    /\ UNCHANGED <<exit_status, extractVars, feed, inputVars, diskVars, n_loaded, crawlVars, driverVars,
                   attempt>>

\* The caller catches the OSError of a failed rewrite and goes on.
HarnessCatch ==
    /\ pc = "raise"
    /\ pc' = "idle"
    /\ UNCHANGED <<exit_status, extractVars, ret, feed, inputVars, storeVars, crawlVars, driverVars, fetchVars>>

InitStore ==
    /\ NoExtraction
    /\ site = [u \in URLS |-> NoStamp]
    /\ csv_file \in InitFiles(site)
    /\ InitCommon
    /\ pc = "h_load"
    /\ ret = "idle"

NextStore ==
    \/ HarnessLoad \/ HarnessAccept \/ HarnessCatch
    \/ OpenTmp \/ WriteHeader \/ WriteRow \/ Replace \/ WriteFails

SpecStore == InitStore /\ [][NextStore]_vars

----------------------------------------------------------------------------
(* Properties *)


NoDupUrl(rows) ==
    \A i, j \in DOMAIN rows : rows[i].URL = rows[j].URL => i = j

CountUrl(rows, u) == Cardinality({i \in DOMAIN rows : rows[i].URL = u})

\* C1: in every reachable state of a crawl session the in-memory list and
\* the committed file hold at most one record per URL.
C1_OneRecordPerUrl ==
    /\ NoDupUrl(all_rows)
    /\ NoDupUrl(csv_file.rows)

\* A feed that lists one URL twice has been evaluated, and the URL, first
\* scraped in this session, is in the committed file.
C1_Witness ==
    /\ pc = "item" /\ idx = 2 /\ n_loaded = 0
    /\ notif_items[1] = notif_items[2]
    /\ notif_items[1] \in RowUrls(csv_file.rows)

\* C2: an accept whose URL is already known changes neither the list nor the
\* URL set, starts no rewrite and leaves both files alone; after any accept
\* of a URL the list holds exactly one record for it.
C2_DedupIdempotence ==
    [][(pc = "idle" /\ article' # None) =>
         LET u == article'[1].URL
         IN  /\ u \in existing_urls =>
                   /\ all_rows' = all_rows
                   /\ existing_urls' = existing_urls
                   /\ csv_file' = csv_file
                   /\ tmp_file' = tmp_file
                   /\ pc' = "idle"
             /\ u # NoHref => CountUrl(all_rows', u) = 1]_vars

\* The URL of the last candidate was accepted earlier through accept (nothing
\* was loaded), with another published time: the last call was a second call.
C2_Witness ==
    /\ pc = "idle" /\ n_loaded = 0 /\ article # None
    /\ \E i \in DOMAIN all_rows :
          /\ all_rows[i].URL = article[1].URL
          /\ all_rows[i] # article[1]
    /\ csv_file = FullFile(all_rows)

\* C3: the committed file changes only by the rename, and then to the
\* complete new content; a rewrite that fails before the rename leaves it as
\* it was.
C3_AtomicPersistence ==
    [][csv_file' # csv_file =>
         /\ pc = "w_write" /\ pc' = ret
         /\ csv_file' = FullFile(all_rows)]_vars

\* A rewrite failed with the temp file partly written; the committed file
\* is still the complete previous one.
C3_Witness ==
    /\ pc = "raise"
    /\ tmp_file.exists /\ Len(tmp_file.rows) = 1 /\ Len(all_rows) = 2
    /\ csv_file = FullFile(Tail(all_rows))

\* The published minute the site shows for the k-th card of the feed.
FeedTime(k) == site[feed[k]].t

\* The feed lists articles with published times T0 > T1 > ... > Tn.
FeedNewestFirst ==
    /\ \A k \in DOMAIN feed :
          feed[k] # NoHref /\ site[feed[k]].found /\ site[feed[k]].valid
    /\ \A k \in DOMAIN feed : k > 1 => FeedTime(k - 1) > FeedTime(k)

\* The position i (1-based) with Ti < C <= T(i-1), or one past the feed.
FirstOld ==
    IF \E k \in DOMAIN feed : FeedTime(k) < until_dt
      THEN CHOOSE k \in DOMAIN feed :
             /\ FeedTime(k) < until_dt
             /\ \A j \in 1..(k - 1) : FeedTime(j) >= until_dt
      ELSE Len(feed) + 1

\* Over a newest-first feed, with an empty store: the store holds the
\* records of a prefix of the cards before position i, newest card last in,
\* so in reverse order.
AcceptedArePrefix ==
    LET acc == Len(all_rows)
    IN  /\ acc <= FirstOld - 1
        /\ \A k \in 1..acc :
              all_rows[acc + 1 - k] = MakeArticle(feed[k], site[feed[k]])

StopMonotonicityGiven ==
    n_loaded = 0 /\ pc \notin {"load", "exit"} /\ FeedNewestFirst

\* C4 (as amended): over a newest-first feed, with an empty store and no
\* failure, the crawler accepts exactly the cards before position i and
\* stops at card i, which it fetches but does not store; a finished crawl
\* that listed card i has stopped there.
C4_StopMonotonicity ==
    StopMonotonicityGiven =>
       /\ AcceptedArePrefix
       /\ (pc = "done" /\ stop) =>
             /\ Len(all_rows) = FirstOld - 1
             /\ idx + 1 = FirstOld
             /\ article = <<MakeArticle(feed[FirstOld], site[feed[FirstOld]])>>
             /\ LoadRows(csv_file) = all_rows
       /\ (pc = "done" /\ FirstOld <= Len(notif_items)) => stop

\* C4 (as stated): the crawler accepts exactly the cards before position i
\* and stops before processing card i, so the fetcher never runs for it.
C4_StopsBeforeCard ==
    StopMonotonicityGiven =>
       /\ AcceptedArePrefix
       /\ pc \in FetchPcs \cup {"decide"} => idx + 1 < FirstOld

\* The crawl stopped at the second card of a newest-first feed after it
\* accepted the first, whose time is the cutoff itself.
C4_Witness ==
    /\ pc = "done" /\ stop /\ n_loaded = 0 /\ FeedNewestFirst
    /\ Len(feed) = 2 /\ FirstOld = 2 /\ FeedTime(1) = until_dt
    /\ csv_file = FullFile(<<MakeArticle(feed[1], site[feed[1]])>>)

\* C5: a fetched article older than the cutoff sets the stop flag and ends
\* the loop with the store untouched, and after that the only step left is
\* main's teardown (no card evaluated, no fetch, no accept, no click on
\* 'load more'); any other fetched article, one at the cutoff included, is
\* prepended and the flag stays down.
C5_StopOnFirstOld ==
    [][/\ (pc = "decide" /\ article # None) =>
            IF /\ article[1].PublishedAt # EmptyStr
               /\ article[1].PublishedAt < until_dt
              THEN /\ stop' /\ pc' = "done"
                   /\ UNCHANGED <<all_rows, existing_urls, csv_file, tmp_file>>
              ELSE /\ ~stop' /\ pc' = "w_open"
                   /\ all_rows' = <<article[1]>> \o all_rows
       /\ stop =>
            /\ pc = "done" /\ pc' = "exit"
            /\ UNCHANGED <<feed, csv_file, tmp_file>>]_vars

\* The crawl stopped on an old article with an article published exactly at
\* the cutoff committed before it.
C5_Witness ==
    /\ pc = "done" /\ stop
    /\ article[1].PublishedAt < until_dt
    /\ \E i \in DOMAIN csv_file.rows :
          /\ csv_file.rows[i].PublishedAt = until_dt
          /\ i <= Len(all_rows) - n_loaded

\* C6: a page without a stamp, or with one that does not parse, yields an
\* empty PublishedAt; a fetched article with an empty PublishedAt never sets
\* the stop flag and is prepended to the list and added to the URL set.
C6_AbsentTimeNeverStops ==
    [][/\ (pc = "f_extract" /\ pc' = "f_close"
             /\ ~(site[tabs[focus]].found /\ site[tabs[focus]].valid)) =>
            article'[1].PublishedAt = EmptyStr
       /\ (pc = "decide" /\ article # None
             /\ article[1].PublishedAt = EmptyStr) =>
            /\ ~stop' /\ pc' = "w_open"
            /\ all_rows' = <<article[1]>> \o all_rows
            /\ article[1].URL \in existing_urls']_vars

\* An article whose stamp did not parse was scraped in this session and is
\* now the newest committed row; the crawl goes on.
C6_Witness ==
    /\ pc = "advance" /\ ~stop /\ n_loaded = 0
    /\ csv_file = FullFile(all_rows)
    /\ all_rows[1].PublishedAt = EmptyStr
    /\ site[all_rows[1].URL] = Garbled

\* C7: when the crawler is at a card, the committed file holds exactly the
\* rows of the list; at every other point of the session the committed file
\* lacks at most the row being written.
C7_DurableCheckpoint ==
    /\ pc = "item" => LoadRows(csv_file) = all_rows
    /\ pc \notin {"load", "exit"} =>
          \/ LoadRows(csv_file) = all_rows
          \/ /\ pc \in {"w_open", "w_write", "raise"}
             /\ LoadRows(csv_file) = Tail(all_rows)

\* The crawler is at its second card with the first one accepted in this
\* session and committed.
C7_Witness ==
    /\ pc = "item" /\ idx = 1
    /\ Len(all_rows) = n_loaded + 1
    /\ all_rows[1].URL = notif_items[1]
    /\ csv_file = FullFile(all_rows)

\* C8: while the fetcher runs, the URL it was called with is neither in the
\* known-URL set nor in a row of the committed file.
C8_NoFetchOfKnownUrl ==
    pc \in FetchPcs =>
       /\ CurrentUrl \notin existing_urls
       /\ CurrentUrl \notin RowUrls(LoadRows(csv_file))

\* The first card's URL came from the store file and was passed over; the
\* fetcher runs for the second card.
C8_Witness ==
    /\ pc = "f_open" /\ idx = 1 /\ n_loaded = 1
    /\ notif_items[1] = all_rows[1].URL

\* C9: the fetcher returns None only out of the handler of attempt
\* max_retries, and a record only out of the close of an attempt that
\* extracted it; attempts are numbered from 1, and a failed attempt below
\* max_retries is followed by the next one.
C9_RetryExhaustion ==
    [][/\ (pc \in FetchPcs /\ pc' = "decide") =>
            IF article' = None
              THEN pc = "f_cleanup" /\ attempt = max_retries
              ELSE pc = "f_close" /\ attempt \in 1..max_retries
       /\ (pc = "item" /\ pc' = "f_open") => attempt' = 1
       /\ (pc = "f_cleanup" /\ attempt < max_retries) =>
            pc' = "f_open" /\ attempt' = attempt + 1
       /\ (pc \in FetchPcs \ {"f_cleanup"} /\ pc' # "decide") =>
            attempt' = attempt]_vars

\* The fetcher has given up: it returned None to the crawler.
C9_Witness ==
    /\ pc = "decide" /\ article = None
    /\ CurrentUrl \notin existing_urls

\* C10: whenever the fetcher is not running, the feed window is the only
\* open window and has the focus, and at no time is more than one article
\* window open.
C10_NoStrayContext ==
    /\ pc \notin FetchPcs => tabs = <<>> /\ focus = original_window
    /\ Len(tabs) <= 1

\* C11: when the fetcher has given up on a card, the crawler's next step
\* stores nothing for it (list, URL set and both files unchanged, the URL
\* still unknown), leaves the stop flag down and moves the batch loop to the
\* next card.
C11_GiveUpNotFatal ==
    [][(pc = "decide" /\ article = None) =>
         /\ pc' = "item" /\ idx' = idx + 1
         /\ ~stop'
         /\ UNCHANGED <<all_rows, existing_urls, csv_file, tmp_file>>
         /\ CurrentUrl \notin existing_urls']_vars

\* The fetcher gave up on the first card, which is still unknown, and the
\* crawler went on to scrape and commit the second.
C11_Witness ==
    /\ pc = "advance" /\ idx = 1 /\ ~stop
    /\ notif_items[1] # NoHref /\ notif_items[1] \notin existing_urls
    /\ all_rows[1].URL = notif_items[2]
    /\ csv_file = FullFile(all_rows)

\* C12 (as stated): an attempt on a page without a title element still
\* builds a record, and a fetch of a URL whose page has no title element
\* never returns None.
C12_MissingTitleStillReturns ==
    [][/\ (pc = "f_extract" /\ ~FocusedPage.title) =>
            pc' = "f_close" /\ article' # None
       /\ (pc \in FetchPcs /\ pc' = "decide" /\ ~site[CurrentUrl].title) =>
            article' # None]_vars

\* C13 (as stated): every crawl session eventually terminates.
C13_Terminates == <>(pc = "exit")

\* C14: the crawler tries the 'load more' control only with the stop flag
\* down, and from there it either lists the feed again or, the control being
\* absent or not clickable, leaves the loop normally: no exception, the stop
\* flag still down, list, URL set and committed file untouched and the
\* committed file holding every row of the list; the only step left is main's
\* teardown, which leaves the files alone.
C14_ExhaustedFeedEndsNormally ==
    [][/\ pc = "more" =>
            /\ ~stop
            /\ pc' \in {"collect", "done"}
            /\ pc' = "done" =>
                  /\ ~stop'
                  /\ UNCHANGED <<all_rows, existing_urls, csv_file, tmp_file>>
                  /\ LoadRows(csv_file') = all_rows'
       /\ (pc = "done" /\ ~stop) =>
            /\ pc' = "exit"
            /\ UNCHANGED <<csv_file, tmp_file>>]_vars

\* The control was not found after a batch in which one article was accepted:
\* the loop has ended with the flag down and the article committed.
C14_Witness ==
    /\ pc = "done" /\ ~stop
    /\ Len(all_rows) = n_loaded + 1
    /\ \E k \in DOMAIN notif_items : notif_items[k] = all_rows[1].URL
    /\ csv_file = FullFile(all_rows)

\* C15 (as stated): during a session the cursor never decreases, and the
\* batch loop only evaluates positions at or beyond the cursor.
C15_CursorMonotone ==
    [][pc' # "exit" =>
         /\ processed_notif_count' >= processed_notif_count
         /\ pc' = "item" => idx' >= processed_notif_count']_vars

\* The published minute of a stored row that has one.
RowTime(row) == row.PublishedAt

\* C16 (as stated): in a crawl over a newest-first feed that started from an
\* empty store, every record of the list and of the committed file has a
\* published time no earlier than that of the record after it.
C16_StoreNewestFirst ==
    StopMonotonicityGiven =>
       /\ \A i, j \in DOMAIN all_rows :
             i < j => RowTime(all_rows[i]) >= RowTime(all_rows[j])
       /\ \A i, j \in DOMAIN csv_file.rows :
             i < j => RowTime(csv_file.rows[i]) >= RowTime(csv_file.rows[j])

\* old is the tail end of new: same records, same order.
IsSuffix(old, new) ==
    /\ Len(old) <= Len(new)
    /\ SubSeq(new, Len(new) - Len(old) + 1, Len(new)) = old

\* C17: once loaded, the list changes only by an accept that puts the
\* fetched record in front of the unchanged previous list; every change of
\* the committed file keeps its previous rows, in content and order, as the
\* tail end of the new rows, which are the rows of the list.
C17_AcceptKeepsStored ==
    [][/\ (pc # "load" /\ pc' # "exit") =>
            \/ all_rows' = all_rows
            \/ /\ pc = "decide" /\ article # None
               /\ all_rows' = <<article[1]>> \o all_rows
       /\ csv_file' # csv_file =>
            /\ csv_file'.rows = all_rows
            /\ IsSuffix(LoadRows(csv_file), csv_file'.rows)
            /\ Len(csv_file'.rows) > Len(LoadRows(csv_file))]_vars

\* An article scraped in this session is committed on top of the row the
\* store file held before the session.
C17_Witness ==
    /\ pc = "advance" /\ n_loaded = 1 /\ Len(all_rows) = 2
    /\ all_rows[1].URL = CurrentUrl
    /\ all_rows[2].URL # CurrentUrl
    /\ csv_file = FullFile(all_rows)

\* C19 (as stated): the load of a missing or corrupt store file never
\* raises: it returns an empty list and an empty URL set and the crawl goes
\* on to open the feed.
C19_LoadNeverFatal ==
    [][(pc = "load" /\ (~csv_file.exists \/ ~csv_file.utf8)) =>
         /\ pc' = "open"
         /\ all_rows' = <<>>
         /\ existing_urls' = {}]_vars

\* C18 (as stated): a run that ends out of a store I/O failure or a driver
\* failure (the crawler raised, or the driver could not be created) exits
\* with a failure status; a run whose crawler returned exits with success.
C18_ExitStatusReflectsFatal ==
    [][(pc # "exit" /\ pc' = "exit") =>
         /\ pc \in {"raise", "create"} => exit_status' # EXIT_SUCCESS
         /\ pc = "done" => exit_status' = EXIT_SUCCESS]_vars

\* C20: every step that ends a run after the driver was created, from
\* wherever the run was (the crawler returned, raised, or was interrupted in
\* the middle of a fetch or of a rewrite), leaves the driver quit with no
\* window open; the driver is never quit while the run goes on.
C20_DriverAlwaysQuit ==
    [][/\ (pc \notin {"create", "exit"} /\ pc' = "exit") =>
            driver_quit' /\ tabs' = <<>>
       /\ pc' # "exit" => ~driver_quit']_vars

\* A run ended in the middle of a rewrite, the temp file left behind, and
\* the driver is quit.
C20_Witness ==
    /\ pc = "exit" /\ driver_quit /\ tabs = <<>>
    /\ tmp_file.exists /\ ~tmp_file.header

\* What the first strategy yields: the short description and the long
\* description cut at the marker, the non-empty ones joined by a blank line.
PrimaryYield(d) ==
    LET short == IF d.short.present THEN strip(d.short.text) ELSE <<>>
        long == IF d.long.present
                  THEN strip(BeforeMarker(strip(d.long.text)))
                  ELSE <<>>
    IN  IF short # <<>> /\ long # <<>>
          THEN short \o <<LineBreak, LineBreak>> \o long
          ELSE short \o long

\* What the second strategy yields: the non-empty paragraph texts, one a line.
GenericYield(d) == join(<<LineBreak>>, Paragraphs(d.generic))

\* C21 (as stated): the body is what the first strategy yields when that is
\* not empty, and otherwise what the generic strategy yields; the record is
\* marked notification-only exactly when both yield nothing.
C21_FallbackOrder ==
    pc = "x_done" =>
       /\ body = IF PrimaryYield(dom) # <<>>
                   THEN PrimaryYield(dom)
                   ELSE GenericYield(dom)
       /\ is_notification_only(body) <=>
             (PrimaryYield(dom) = <<>> /\ GenericYield(dom) = <<>>)

\* The non-empty URLs of the records of a list.
NonEmptyUrls(rows) == {u \in RowUrls(rows) : u # NoHref}

\* C22: before and after every step of a session the known-URL set is the
\* set of non-empty URLs of the list; a rewrite that succeeds leaves the
\* committed rows equal to the list; a rewrite that fails leaves the list
\* made of the new record followed by the committed rows, with the record's
\* URL in the URL set and not in the committed file.
C22_MirrorConsistency ==
    [][/\ existing_urls = NonEmptyUrls(all_rows)
       /\ existing_urls' = NonEmptyUrls(all_rows')
       /\ (pc = "w_write" /\ pc' = ret) =>
            LoadRows(csv_file') = all_rows'
       /\ (pc \in {"w_open", "w_write"} /\ pc' = "raise") =>
            /\ all_rows' = <<article[1]>> \o LoadRows(csv_file')
            /\ article[1].URL \in existing_urls'
            /\ article[1].URL \notin RowUrls(LoadRows(csv_file'))]_vars

\* The rewrite for a second record of this session failed after the first
\* one was committed: the list is one record ahead of the committed file.
C22_Witness ==
    /\ pc = "raise" /\ n_loaded = 0
    /\ Len(all_rows) = 2 /\ Len(csv_file.rows) = 1
    /\ all_rows[1].URL \in existing_urls
    /\ all_rows[1].URL \notin RowUrls(csv_file.rows)

=============================================================================
